---- MODULE Spec2Model ----
(***************************************************************************)
(* Model of the metric anomaly detector (metric_anomaly_detector.py) and   *)
(* of the streaming loop that feeds it (metric_streaming.py).              *)
(*                                                                         *)
(* Conventions.  A Python value that may be None is a sequence: <<>> is    *)
(* None and <<v>> is v.  A datetime is its epoch second.  Python lists are *)
(* sequences, so the Python index i is the index i + 1 here.  The          *)
(* Forecaster (SARIMAX) and the Segmenter (ruptures.Pelt) are outside the  *)
(* repository: what they return, or that they raise, is an input of the    *)
(* step that calls them.                                                   *)
(***************************************************************************)
EXTENDS Integers, Sequences, FiniteSets, TLC

VARIABLES
    mad,              \* the MetricAnomalyDetector under test (detector specification)
    phase,            \* "new" until load() has run, then "live"
    last,             \* the last call on mad: its input, what it returned or raised
    mad_dict,         \* update_metrics: metric_name -> detector
    MAD_DICT,         \* module-level dict filled by startup_event
    inference_queue,  \* asyncio.Queue between the scraper and update_metrics
    producer_pc,      \* scrape_prometheus_metrics: "scrape" | "raised"
    consumer_pc,      \* update_metrics: "init" | "get" | "send" | "raised"
    server_pc,        \* the FastAPI app: "startup" | "serving"
    scrapes,          \* number of batches scraped so far
    metrics_payloads, \* update_metrics: the Evaluations of the batch dequeued last
    ingested,         \* what the for loop of update_metrics did with that batch
    sink,             \* how the last async_streaming_bulk call ended
    bulk_calls,       \* number of async_streaming_bulk calls made
    http,             \* status of the last response of the /metrics handler
    actor             \* the task that took the last step

sysvars == <<mad_dict, MAD_DICT, inference_queue, producer_pc, consumer_pc,
             server_pc, scrapes, metrics_payloads, ingested, sink, bulk_calls,
             http, actor>>
vars == <<mad, phase, last, mad_dict, MAD_DICT, inference_queue, producer_pc,
          consumer_pc, server_pc, scrapes, metrics_payloads, ingested, sink,
          bulk_calls, http, actor>>

----------------------------------------------------------------------------
(* Program constants *)

LOOP_TIME_SECOND == 60
ROLLING_TRAINING_SIZE == 1440
MIN_TRAINING_SIZE_short == 30 - 1
MIN_TRAINING_SIZE == 30
ALERT_SCORE_THRESHOLD == 5
CPD_TRACE_BACK_TIME == 30
DISK_UPPER_BOUND == 80
CPD_TOLERANCE == 5

metrics_list == <<"cpu_usage", "memory_usage", "disk_usage">>
MetricNames == {"cpu_usage", "memory_usage", "disk_usage"}

----------------------------------------------------------------------------
(* Bounds of the model *)

\* accepted points beyond MIN_TRAINING_SIZE + ALERT_SCORE_THRESHOLD
ExtraTicks == 1
MaxTicks == MIN_TRAINING_SIZE + ALERT_SCORE_THRESHOLD + ExtraTicks
\* first epoch second of the modelled timeline (a multiple of the interval)
StartTime == 10 * LOOP_TIME_SECOND
\* what a tick can bring: the measurement scraped and the band
\* <<yhat, lower, upper>> Forecaster.predict returns for it.  The first is
\* inside its band, the second below it, the third above it and at the
\* fixed ceiling of disk_usage.
CalmScene == <<10, <<10, 5, 15>>>>
Scenes == {CalmScene, <<10, <<25, 20, 130>>>>, <<80, <<2, 0, 5>>>>}
\* the baseline measurement of replayed history and of the warm-up
BaseValue == CalmScene[1]
\* batches the scraper produces
MaxScrapes == 3
Values == {sc[1] : sc \in Scenes}
\* warm-up points before this index take the baseline value
FreeFrom == MIN_TRAINING_SIZE - 1

----------------------------------------------------------------------------
(* Python helpers *)

None == <<>>
Some(v) == <<v>>
Truthy(o) == o # None /\ o[1] # 0
Range(s) == {s[i] : i \in DOMAIN s}
Min2(a, b) == IF a <= b THEN a ELSE b
Max2(a, b) == IF a >= b THEN a ELSE b
Abs(a) == IF a < 0 THEN -a ELSE a
Last(s) == s[Len(s)]
\* s[k:] for a Python index 0 <= k
DropFirst(s, k) == IF k >= Len(s) THEN <<>> ELSE SubSeq(s, k + 1, Len(s))
\* s[:-1]
DropLast(s) == IF Len(s) = 0 THEN <<>> ELSE SubSeq(s, 1, Len(s) - 1)

----------------------------------------------------------------------------
(* MetricAnomalyDetector *)

\* __init__
MadInit(metric_name, cluster_id) ==
    [cluster_id |-> cluster_id,
     metric_name |-> metric_name,
     metric_xs |-> <<>>,
     metric_y |-> <<>>,
     metric_rawy |-> <<>>,
     pred_history |-> <<>>,
     alert_score_counter |-> 0,
     metric_model |-> None,
     anomaly_history |-> <<>>,
     start_index |-> 0,
     anomaly_start_time |-> None]

\* load(history_data): one append to each list per record, oldest first
load(d, history_data) ==
    [d EXCEPT
       !.metric_xs = @ \o [i \in DOMAIN history_data |-> history_data[i].timestamp],
       !.metric_y = @ \o [i \in DOMAIN history_data |-> history_data[i].y],
       !.metric_rawy = @ \o [i \in DOMAIN history_data |-> history_data[i].y],
       !.pred_history = @ \o [i \in DOMAIN history_data |->
                                <<history_data[i].yhat, history_data[i].yhat_lower,
                                  history_data[i].yhat_upper>>],
       !.anomaly_history = @ \o [i \in DOMAIN history_data |-> history_data[i].is_anomaly]]

\* int(xs_raw) // LOOP_TIME_SECOND * LOOP_TIME_SECOND
NormalizeTime(xs_raw) == (xs_raw \div LOOP_TIME_SECOND) * LOOP_TIME_SECOND

\* index of the first occurrence of t in xs (keep="first")
FirstIndex(xs, t) == CHOOSE i \in DOMAIN xs : xs[i] = t /\ \A j \in 1..(i - 1) : xs[j] # t

SeqMin(xs) == CHOOSE m \in Range(xs) : \A x \in Range(xs) : m <= x
SeqMax(xs) == CHOOSE m \in Range(xs) : \A x \in Range(xs) : m >= x

\* pd.Series(metric_y, metric_xs) without duplicated index, .asfreq("T"):
\* one slot per minute from the earliest to the latest timestamp, None (NaN)
\* where no point was stored.  The three branches compute the same series:
\* when the timestamps are contiguous every slot is a point; when they
\* increase, the point of slot i is not before index i minus the number of
\* empty slots, and not after index i.
Contiguous(xs) == \A i \in DOMAIN xs : xs[i] = xs[1] + (i - 1) * LOOP_TIME_SECOND
Increasing(xs) == \A i \in 1..(Len(xs) - 1) : xs[i] < xs[i + 1]
AsFreq(xs, ys) ==
    IF xs = <<>> THEN <<>>
    ELSE IF Contiguous(xs) THEN [i \in DOMAIN xs |-> Some(ys[i])]
    ELSE IF Increasing(xs)
    THEN LET lo == xs[1]
             n == (Last(xs) - lo) \div LOOP_TIME_SECOND + 1
             empty == n - Len(xs)
         IN [i \in 1..n |->
                LET t == lo + (i - 1) * LOOP_TIME_SECOND
                    at == {j \in Max2(1, i - empty)..Min2(i, Len(xs)) : xs[j] = t}
                IN IF at = {} THEN None ELSE Some(ys[CHOOSE j \in at : TRUE])]
    ELSE LET lo == SeqMin(xs)
             n == (SeqMax(xs) - lo) \div LOOP_TIME_SECOND + 1
         IN [i \in 1..n |->
                LET t == lo + (i - 1) * LOOP_TIME_SECOND IN
                IF t \in Range(xs) THEN Some(ys[FirstIndex(xs, t)]) ELSE None]

\* the start index set to the cap's value on every call
RollingStart_unguarded(d) == Len(d.metric_y) - ROLLING_TRAINING_SIZE

\* the rolling cap of train_and_predict
RollingStart(d) ==
    IF Len(d.metric_y) - d.start_index > ROLLING_TRAINING_SIZE
    THEN Len(d.metric_y) - ROLLING_TRAINING_SIZE
    ELSE d.start_index

\* whether train_and_predict calls the Forecaster at all
TrainingDue(d) == Len(d.metric_xs) >= MIN_TRAINING_SIZE

\* train_and_predict().  fc is what the Forecaster does on this call:
\* [kind |-> "ok", pred |-> <<yhat, lower, upper>>], or it raises in train
\* ("train_raises") or in predict ("predict_raises").
train_and_predict(d, fc) ==
    IF TrainingDue(d)
    THEN LET si == RollingStart(d)
             training_dataseries == DropFirst(AsFreq(d.metric_xs, d.metric_y), si)
             d1 == [d EXCEPT !.start_index = si]
             d2 == [d1 EXCEPT !.metric_model = Some(training_dataseries)]
         IN CASE fc.kind = "train_raises" ->
                   [mad |-> d1, raised |-> TRUE, trained |-> TRUE]
              [] fc.kind = "predict_raises" ->
                   [mad |-> d2, raised |-> TRUE, trained |-> TRUE]
              [] OTHER ->
                   [mad |-> [d2 EXCEPT !.pred_history =
                                Append(@, <<Some(fc.pred[1]), Some(fc.pred[2]), Some(fc.pred[3])>>)],
                    raised |-> FALSE, trained |-> TRUE]
    ELSE [mad |-> d, raised |-> FALSE, trained |-> FALSE]

\* the anomaly test with the disk ceiling itself not anomalous
IsAnomaly_aboveceiling(metric_name, y_new, y_pred_low, y_pred_high) ==
    IF metric_name = "disk_usage"
    THEN (IF y_new > DISK_UPPER_BOUND THEN 1 ELSE 0)
    ELSE (IF y_new < y_pred_low[1] \/ y_new > y_pred_high[1] THEN 1 ELSE 0)

\* run(), lines 85-92: the per-metric anomaly test against the band
\* <<y_pred_low, y_pred_high>> read from pred_history
IsAnomaly(metric_name, y_new, y_pred_low, y_pred_high) ==
    IF metric_name = "disk_usage"
    THEN (IF y_new >= DISK_UPPER_BOUND THEN 1 ELSE 0)
    ELSE (IF y_new < y_pred_low[1] \/ y_new > y_pred_high[1] THEN 1 ELSE 0)

\* the accumulator with the score capped at the threshold
AlertScore_capped(d, is_anomaly, xs_raw) ==
    IF is_anomaly = 1
    THEN [d EXCEPT !.anomaly_start_time =
                       IF d.alert_score_counter = 0 THEN Some(xs_raw) ELSE @,
                   !.alert_score_counter = Min2(@ + 1, ALERT_SCORE_THRESHOLD)]
    ELSE IF d.alert_score_counter > 0
         THEN IF d.alert_score_counter - 2 <= 0
              THEN [d EXCEPT !.anomaly_start_time = None, !.alert_score_counter = 0]
              ELSE [d EXCEPT !.alert_score_counter = @ - 2]
         ELSE d

\* the accumulator clearing the alert start only below zero
AlertScore_strictfloor(d, is_anomaly, xs_raw) ==
    IF is_anomaly = 1
    THEN [d EXCEPT !.anomaly_start_time =
                       IF d.alert_score_counter = 0 THEN Some(xs_raw) ELSE @,
                   !.alert_score_counter = @ + 1]
    ELSE IF d.alert_score_counter > 0
         THEN IF d.alert_score_counter - 2 < 0
              THEN [d EXCEPT !.anomaly_start_time = None, !.alert_score_counter = 0]
              ELSE [d EXCEPT !.alert_score_counter = @ - 2]
         ELSE d

\* the accumulator restarting the alert on every anomalous tick
AlertScore_restart(d, is_anomaly, xs_raw) ==
    IF is_anomaly = 1
    THEN [d EXCEPT !.anomaly_start_time = Some(xs_raw),
                   !.alert_score_counter = @ + 1]
    ELSE IF d.alert_score_counter > 0
         THEN IF d.alert_score_counter - 2 <= 0
              THEN [d EXCEPT !.anomaly_start_time = None, !.alert_score_counter = 0]
              ELSE [d EXCEPT !.alert_score_counter = @ - 2]
         ELSE d

\* run(), lines 94-103: the accumulator
AlertScore(d, is_anomaly, xs_raw) ==
    IF is_anomaly = 1
    THEN [d EXCEPT !.anomaly_start_time =
                       IF d.alert_score_counter = 0 THEN Some(xs_raw) ELSE @,
                   !.alert_score_counter = @ + 1]
    ELSE IF d.alert_score_counter > 0
         THEN IF d.alert_score_counter - 2 <= 0
              THEN [d EXCEPT !.anomaly_start_time = None, !.alert_score_counter = 0]
              ELSE [d EXCEPT !.alert_score_counter = @ - 2]
         ELSE d

\* the alert test with a strict comparison
IsAlert_strict(d) == IF d.alert_score_counter > ALERT_SCORE_THRESHOLD THEN 1 ELSE 0

\* run(), lines 107-108
IsAlert(d) == IF d.alert_score_counter >= ALERT_SCORE_THRESHOLD THEN 1 ELSE 0

\* run(), lines 115-120: a falsy bound (None or 0) keeps the echoed y_new
ReportedValue(y_new, y_pred) == IF Truthy(y_pred) THEN y_pred[1] ELSE y_new
ReportedLower(y_new, y_pred_low) ==
    IF Truthy(y_pred_low) THEN Min2(Max2(0, y_pred_low[1]), 100) ELSE y_new
ReportedUpper(y_new, y_pred_high) ==
    IF Truthy(y_pred_high) THEN Min2(Max2(y_pred_high[1], 0), 100) ELSE y_new

\* the training value corrected during an alert as well
TrainingValue_inalert(metric_name, is_alert, is_anomaly, y_new, y_pred_low, y_pred_high) ==
    IF metric_name = "cpu_usage" /\ is_anomaly = 1
    THEN (IF y_new < y_pred_low[1] THEN y_pred_low[1] ELSE y_pred_high[1])
    ELSE y_new

\* run(), lines 131-138: the value stored for training
TrainingValue(metric_name, is_alert, is_anomaly, y_new, y_pred_low, y_pred_high) ==
    IF metric_name = "cpu_usage" /\ is_alert = 0 /\ is_anomaly = 1
    THEN (IF y_new < y_pred_low[1] THEN y_pred_low[1] ELSE y_pred_high[1])
    ELSE y_new

\* the trigger reading the flag one tick further back
CpdDue_before(d) ==
    /\ Len(d.anomaly_history) >= CPD_TRACE_BACK_TIME + 1
    /\ d.anomaly_history[Len(d.anomaly_history) - CPD_TRACE_BACK_TIME] = 1
    /\ d.metric_name = "cpu_usage"

\* run(), lines 145-149
CpdDue(d) ==
    /\ Len(d.anomaly_history) >= CPD_TRACE_BACK_TIME
    /\ d.anomaly_history[Len(d.anomaly_history) - CPD_TRACE_BACK_TIME + 1] = 1
    /\ d.metric_name = "cpu_usage"

\* whether change_point_detection calls the Segmenter
SegmenterDue(d) == Len(d.metric_y) - d.start_index >= 2 * CPD_TRACE_BACK_TIME

\* the first candidate, scanning from the most recent, that lies within
\* CPD_TOLERANCE of len(training_y) - CPD_TRACE_BACK_TIME; None if there is none
RECURSIVE AcceptedChange(_, _)
\* the candidates scanned from the oldest
AcceptedChange_oldest(change_locations, n) ==
    IF change_locations = <<>> THEN None
    ELSE LET l == Head(change_locations) IN
         IF Abs(l - n + CPD_TRACE_BACK_TIME) <= CPD_TOLERANCE
         THEN Some(l)
         ELSE AcceptedChange(Tail(change_locations), n)

AcceptedChange(change_locations, n) ==
    IF change_locations = <<>> THEN None
    ELSE LET l == Last(change_locations) IN
         IF Abs(l - n + CPD_TRACE_BACK_TIME) <= CPD_TOLERANCE
         THEN Some(l)
         ELSE AcceptedChange(DropLast(change_locations), n)

\* change_point_detection().  cps is what cpd.predict(pen=10) returns on
\* training_y: increasing indices, the last one len(training_y)
change_point_detection(d, cps) ==
    IF SegmenterDue(d)
    THEN LET l == AcceptedChange(DropLast(cps), Len(d.metric_y) - d.start_index) IN
         IF l = None THEN d ELSE [d EXCEPT !.start_index = @ + l[1]]
    ELSE d

\* the Evaluation record run() returns
Payload(d, xs_new, is_anomaly, alert_score, is_alert, y, yhat, lo, hi, conf, alert_id, alert_len) ==
    [kind |-> "payload",
     cluster_id |-> d.cluster_id,
     timestamp |-> xs_new,
     is_anomaly |-> is_anomaly,
     metric_name |-> d.metric_name,
     alert_score |-> alert_score,
     is_alert |-> is_alert,
     y |-> y,
     yhat |-> yhat,
     yhat_lower |-> lo,
     yhat_upper |-> hi,
     confidence_score |-> conf,
     alert_id |-> alert_id,
     alert_len |-> alert_len]

\* the forecasting branch taken by the length of the training window
Active_window(d) == Len(d.metric_xs) - d.start_index >= MIN_TRAINING_SIZE

\* whether run() takes the forecasting branch (line 83)
Active(d) == Len(d.metric_xs) >= MIN_TRAINING_SIZE

\* the appends without the one to metric_rawy
AppendTick_norawy(d, is_anomaly, xs_new, y_train, y_new, cps) ==
    LET d1 == [d EXCEPT !.anomaly_history = Append(@, is_anomaly),
                        !.metric_xs = Append(@, xs_new),
                        !.metric_y = Append(@, y_train)]
    IN IF CpdDue(d1) THEN change_point_detection(d1, cps) ELSE d1

\* run(), lines 140-150: the appends and the change-point trigger
AppendTick(d, is_anomaly, xs_new, y_train, y_new, cps) ==
    LET d1 == [d EXCEPT !.anomaly_history = Append(@, is_anomaly),
                        !.metric_xs = Append(@, xs_new),
                        !.metric_y = Append(@, y_train),
                        !.metric_rawy = Append(@, y_new)]
    IN IF CpdDue(d1) THEN change_point_detection(d1, cps) ELSE d1

\* run(), lines 83-129 and on, after train_and_predict returned the detector t
Judge(t, xs_raw, xs_new, y_new, cps) ==
    IF Active(t)
    THEN LET p == t.pred_history[Len(t.metric_xs) + 1]
             y_pred == IF t.metric_name = "disk_usage" THEN None ELSE p[1]
             y_pred_low == p[2]
             y_pred_high == IF t.metric_name = "disk_usage" THEN Some(DISK_UPPER_BOUND) ELSE p[3]
             is_anomaly == IsAnomaly(t.metric_name, y_new, y_pred_low, y_pred_high)
             s == AlertScore(t, is_anomaly, xs_raw)
             is_alert == IsAlert(s)
             alert_len == IF Truthy(s.anomaly_start_time)
                          THEN Some((xs_raw - s.anomaly_start_time[1]) \div LOOP_TIME_SECOND)
                          ELSE None
             y_train == TrainingValue(t.metric_name, is_alert, is_anomaly, y_new,
                                      y_pred_low, y_pred_high)
         IN [mad |-> AppendTick(s, is_anomaly, xs_new, y_train, y_new, cps),
             ret |-> Payload(s, xs_new, is_anomaly, s.alert_score_counter, is_alert, y_new,
                             ReportedValue(y_new, y_pred),
                             ReportedLower(y_new, y_pred_low),
                             ReportedUpper(y_new, y_pred_high),
                             1, s.anomaly_start_time, alert_len)]
    ELSE LET b == [t EXCEPT !.pred_history = Append(@, <<None, None, None>>)] IN
         [mad |-> AppendTick(b, 0, xs_new, y_new, y_new, cps),
          ret |-> Payload(t, xs_new, 0, 0, 0, y_new, y_new, y_new, y_new, 0,
                          t.anomaly_start_time, None)]

\* the duplicate test against the newest timestamp only
Duplicated_lastonly(d, xs_new) == d.metric_xs # <<>> /\ xs_new = Last(d.metric_xs)

\* the duplicate test of run(), line 59
Duplicated(d, xs_new) == xs_new \in Range(d.metric_xs)

\* run(data) with data[0]["value"] = <<xs_raw, y_raw>>.  The result holds the
\* detector after the call, what the call returned ([kind |-> "None"] or the
\* payload) or that it raised, and whether the Forecaster was trained.
run(d, xs_raw_in, y_raw, fc, cps) ==
    LET xs_raw == NormalizeTime(xs_raw_in)
        xs_new == xs_raw
    IN IF Duplicated(d, xs_new)
       THEN [mad |-> d, ret |-> [kind |-> "None"], raised |-> FALSE, trained |-> FALSE]
       ELSE LET tp == train_and_predict(d, fc) IN
            IF tp.raised
            THEN [mad |-> tp.mad, ret |-> [kind |-> "raised"], raised |-> TRUE,
                  trained |-> tp.trained]
            ELSE IF Active(tp.mad) /\ Len(tp.mad.metric_xs) + 1 \notin DOMAIN tp.mad.pred_history
            THEN \* IndexError at line 84
                 [mad |-> tp.mad, ret |-> [kind |-> "raised"], raised |-> TRUE,
                  trained |-> tp.trained]
            ELSE LET j == Judge(tp.mad, xs_raw, xs_new, y_raw, cps) IN
                 [mad |-> j.mad, ret |-> j.ret, raised |-> FALSE, trained |-> tp.trained]

----------------------------------------------------------------------------
(* Inputs of the detector specification *)

\* a persisted Evaluation as load() reads it (the "_source" of a hit)
HistoryRecord(i) ==
    [timestamp |-> StartTime + (i - 1) * LOOP_TIME_SECOND,
     y |-> BaseValue,
     yhat |-> Some(BaseValue),
     yhat_lower |-> Some(BaseValue),
     yhat_upper |-> Some(BaseValue),
     is_anomaly |-> 0]

\* the histories the store can return, oldest first
HistLens == {0, MIN_TRAINING_SIZE}
Histories == {[i \in 1..n |-> HistoryRecord(i)] : n \in HistLens}

\* the next minute not yet stored
NextMinute(d) ==
    IF d.metric_xs = <<>> THEN StartTime ELSE SeqMax(d.metric_xs) + LOOP_TIME_SECOND

\* timestamps a point can carry: the start of the next minute or a second
\* into it, the last stored minute again, or the last second of the first
\* stored minute
FreshStamps(d) ==
    IF Len(d.metric_xs) < MaxTicks THEN {NextMinute(d), NextMinute(d) + 1} ELSE {}
StaleStamps(d) ==
    IF d.metric_xs = <<>> THEN {}
    ELSE {d.metric_xs[1] + LOOP_TIME_SECOND - 1, Last(d.metric_xs)}
Stamps(d) == FreshStamps(d) \cup StaleStamps(d)

\* measurements a point can carry
Measurements(d) == IF Len(d.metric_xs) < FreeFrom THEN {BaseValue} ELSE Values

\* what the Forecaster can do when it is called on a tick that brings y
ForecasterOutcomes(d, y) ==
    IF TrainingDue(d)
    THEN {[kind |-> "ok", pred |-> sc[2]] : sc \in {x \in Scenes : x[1] = y}}
         \cup {[kind |-> "train_raises"], [kind |-> "predict_raises"]}
    ELSE {[kind |-> "unused"]}

\* what the Segmenter can return on a series of length n: increasing
\* indices ending with n
Segmentations(n) ==
    {<<n>>, <<n - CPD_TRACE_BACK_TIME, n>>, <<1, n>>,
     <<n - CPD_TRACE_BACK_TIME + CPD_TOLERANCE, n>>,
     <<0, n - CPD_TRACE_BACK_TIME - CPD_TOLERANCE - 1, n>>,
     <<n - CPD_TRACE_BACK_TIME, n - CPD_TRACE_BACK_TIME + CPD_TOLERANCE, n>>}
\* the series it is given is the one after this tick's append
SegmenterOutcomes(d) ==
    LET n == Len(d.metric_y) + 1 - RollingStart(d) IN
    IF n >= 2 * CPD_TRACE_BACK_TIME THEN Segmentations(n) ELSE {<<>>}

----------------------------------------------------------------------------
(* Detector specification: one detector, loaded once, then fed points *)

\* the streaming loop is not part of this specification
SysIdle ==
    /\ mad_dict = <<>>
    /\ MAD_DICT = <<>>
    /\ inference_queue = <<>>
    /\ producer_pc = "off"
    /\ consumer_pc = "off"
    /\ server_pc = "off"
    /\ scrapes = 0
    /\ metrics_payloads = <<>>
    /\ ingested = <<>>
    /\ sink = "none"
    /\ bulk_calls = 0
    /\ http = "none"
    /\ actor = "none"

Init ==
    /\ \E m \in MetricNames : mad = MadInit(m, "c1")
    /\ phase = "new"
    /\ last = [op |-> "init"]
    /\ SysIdle

\* MetricAnomalyDetector.load
Load ==
    /\ phase = "new"
    /\ \E h \in Histories : mad' = load(mad, h)
    /\ phase' = "live"
    /\ last' = [op |-> "load"]
    /\ UNCHANGED sysvars

\* MetricAnomalyDetector.run
Run ==
    /\ phase = "live"
    /\ \E xs_raw \in Stamps(mad), y_raw \in Measurements(mad) :
         \E fc \in ForecasterOutcomes(mad, y_raw), cps \in SegmenterOutcomes(mad) :
            LET r == run(mad, xs_raw, y_raw, fc, cps) IN
            /\ mad' = r.mad
            /\ last' = [op |-> "run", xs_raw |-> xs_raw, ret |-> r.ret,
                        raised |-> r.raised, trained |-> r.trained,
                        fc |-> IF r.trained THEN fc.kind ELSE "unused"]
    /\ UNCHANGED <<phase>>
    /\ UNCHANGED sysvars

Next == Load \/ Run

Spec == Init /\ [][Next]_vars

----------------------------------------------------------------------------
(* Second detector specification: a detector seeded with a longer history, *)
(* fed points that arrive late and measurements and bands at the edges of  *)
(* the percentage scale and of the disk ceiling                            *)

\* calls of run() after load()
WideTicks == 2

\* measurement and band <<yhat, lower, upper>>: around the disk ceiling
\* with bands that disagree with it, beyond the percentage scale, with a
\* lower bound of 0 and a negative one
WideScenes ==
    {CalmScene,
     <<79, <<50, 40, 60>>>>,
     <<80, <<80, 70, 90>>>>,
     <<81, <<81, 70, 90>>>>,
     <<120, <<50, 0, 90>>>>,
     <<10, <<10, -5, 130>>>>}

\* a persisted Evaluation of a tick judged against a prediction: the
\* measurement in its band or, flagged, below it.  The store holds the
\* reported bounds, which run() limits to 100.
JudgedRecord(i, flagged) ==
    [timestamp |-> StartTime + (i - 1) * LOOP_TIME_SECOND,
     y |-> BaseValue,
     yhat |-> Some(IF flagged THEN 25 ELSE CalmScene[2][1]),
     yhat_lower |-> Some(IF flagged THEN 20 ELSE CalmScene[2][2]),
     yhat_upper |-> Some(IF flagged THEN 100 ELSE CalmScene[2][3]),
     is_anomaly |-> IF flagged THEN 1 ELSE 0]

\* the history a detector persisted over n ticks: MIN_TRAINING_SIZE echoed
\* points, then judged ones of which the first was flagged
PersistedHistory(n) ==
    [i \in 1..n |->
        IF i <= MIN_TRAINING_SIZE THEN HistoryRecord(i)
        ELSE JudgedRecord(i, i = MIN_TRAINING_SIZE + 1)]

\* lengths of the persisted history: up to the last echoed point, up to the
\* flagged one, and one tick short of the length at which
\* change_point_detection calls the Segmenter
WideHistLens == {0, 1, MIN_TRAINING_SIZE, MIN_TRAINING_SIZE + 1, 2 * CPD_TRACE_BACK_TIME - 1}
WideHistories == {PersistedHistory(n) : n \in WideHistLens}

\* timestamps a point can carry: the next minute, the newest stored minute
\* again, or the minute before the oldest stored one
LateStamps(d) == IF d.metric_xs = <<>> THEN {} ELSE {SeqMin(d.metric_xs) - LOOP_TIME_SECOND}
WideStamps(d) ==
    {NextMinute(d)} \cup LateStamps(d)
        \cup (IF d.metric_xs = <<>> THEN {} ELSE {Last(d.metric_xs)})

WideForecasterOutcomes(d, y) ==
    IF TrainingDue(d)
    THEN {[kind |-> "ok", pred |-> sc[2]] : sc \in {x \in WideScenes : x[1] = y}}
         \cup {[kind |-> "train_raises"], [kind |-> "predict_raises"]}
    ELSE {[kind |-> "unused"]}

\* whether run() called change_point_detection (line 150): r is the result
\* of the run(), whose appends are those the trigger of lines 145-149 reads
CpdInvoked(r) == r.ret.kind = "payload" /\ CpdDue(r.mad)

WideInit ==
    /\ \E m \in MetricNames : mad = MadInit(m, "c1")
    /\ phase = "new"
    /\ last = [op |-> "init", n |-> 0]
    /\ SysIdle

\* MetricAnomalyDetector.load
WideLoad ==
    /\ phase = "new"
    /\ \E h \in WideHistories :
          /\ mad' = load(mad, h)
          /\ last' = [op |-> "load", n |-> 0, history |-> h]
    /\ phase' = "live"
    /\ UNCHANGED sysvars

\* MetricAnomalyDetector.run
WideRun ==
    /\ phase = "live"
    /\ last.n < WideTicks
    /\ \E xs_raw \in WideStamps(mad), sc \in WideScenes :
         \E fc \in WideForecasterOutcomes(mad, sc[1]), cps \in SegmenterOutcomes(mad) :
            LET r == run(mad, xs_raw, sc[1], fc, cps) IN
            /\ mad' = r.mad
            /\ last' = [op |-> "run", n |-> last.n + 1, xs_raw |-> xs_raw, ret |-> r.ret,
                        raised |-> r.raised, trained |-> r.trained,
                        fc |-> IF r.trained THEN fc.kind ELSE "unused",
                        cpd |-> CpdInvoked(r)]
    /\ UNCHANGED <<phase>>
    /\ UNCHANGED sysvars

WideNext == WideLoad \/ WideRun

WideSpec == WideInit /\ [][WideNext]_vars

----------------------------------------------------------------------------
(* Third detector specification: a detector seeded with as many records as *)
(* load_history_data asks the store for, so that the rolling cap is met    *)

\* calls of run() after load()
RollTicks == 3

\* the history of a detector that ran for n ticks and flagged the last
\* CPD_TRACE_BACK_TIME of them
RollHistory(n) ==
    [i \in 1..n |->
        IF i <= MIN_TRAINING_SIZE THEN HistoryRecord(i)
        ELSE JudgedRecord(i, i > n - CPD_TRACE_BACK_TIME)]

\* es.search(..., size=ROLLING_TRAINING_SIZE), metric_streaming.py:124-126
RollHistories == {RollHistory(ROLLING_TRAINING_SIZE)}

\* the next minute, or the one after it when a scrape was missed
RollStamps(d) ==
    {Last(d.metric_xs) + LOOP_TIME_SECOND, Last(d.metric_xs) + 2 * LOOP_TIME_SECOND}

RollForecasterOutcomes(d) ==
    IF TrainingDue(d)
    THEN {[kind |-> "ok", pred |-> CalmScene[2]], [kind |-> "train_raises"]}
    ELSE {[kind |-> "unused"]}

\* training_y of change_point_detection, line 191
SegmenterInput(d) == DropFirst(d.metric_y, d.start_index)

\* the length of the series run() handed to the Segmenter, None if it did
\* not call it: r is the result of run() on d
Segmented(d, r) ==
    IF r.ret.kind # "payload" THEN None
    ELSE LET d1 == [r.mad EXCEPT !.start_index = RollingStart(d)] IN
         IF CpdDue(d1) /\ SegmenterDue(d1) THEN Some(Len(SegmenterInput(d1))) ELSE None

RollInit ==
    /\ \E m \in {"cpu_usage", "memory_usage"} : mad = MadInit(m, "c1")
    /\ phase = "new"
    /\ last = [op |-> "init", n |-> 0]
    /\ SysIdle

\* MetricAnomalyDetector.load
RollLoad ==
    /\ phase = "new"
    /\ \E h \in RollHistories : mad' = load(mad, h)
    /\ last' = [op |-> "load", n |-> 0]
    /\ phase' = "live"
    /\ UNCHANGED sysvars

\* MetricAnomalyDetector.run
RollRun ==
    /\ phase = "live"
    /\ last.n < RollTicks
    /\ \E xs_raw \in RollStamps(mad) :
         \E fc \in RollForecasterOutcomes(mad), cps \in SegmenterOutcomes(mad) :
            LET r == run(mad, xs_raw, CalmScene[1], fc, cps) IN
            /\ mad' = r.mad
            /\ last' = [op |-> "run", n |-> last.n + 1, xs_raw |-> xs_raw, ret |-> r.ret,
                        raised |-> r.raised, trained |-> r.trained,
                        fc |-> IF r.trained THEN fc.kind ELSE "unused",
                        start_index |-> mad.start_index,
                        training_y |-> Segmented(mad, r),
                        cpd |-> CpdInvoked(r),
                        cps |-> IF Segmented(mad, r) = None THEN <<>> ELSE cps]
    /\ UNCHANGED <<phase>>
    /\ UNCHANGED sysvars

RollNext == RollLoad \/ RollRun

RollSpec == RollInit /\ [][RollNext]_vars

----------------------------------------------------------------------------
(* The streaming loop: metric_streaming.py *)

\* asyncio.Queue(loop=loop), line 204: no maxsize is given, so it is 0
QueueMaxSize == 0
\* asyncio.Queue.full(): a maxsize <= 0 means the queue is never full
QueueFull(q) == QueueMaxSize > 0 /\ Len(q) >= QueueMaxSize

\* the process runs until one coroutine of asyncio.gather raises: the
\* exception leaves run_until_complete (lines 209-211) and the script ends
Running == producer_pc # "raised" /\ consumer_pc # "raised"

\* the minute of the k-th scrape, after the minutes of the persisted history
ScrapeTime(k) == StartTime + (MIN_TRAINING_SIZE + k) * LOOP_TIME_SECOND + 1

\* the metrics for which a scrape can find no sample
EmptyResults == {{}, {"memory_usage"}}

\* inference_queue_payload, lines 188-192: per metric the result list of
\* custom_query, empty or holding one sample <<timestamp, value>>
ScrapedPayload(k, empty) ==
    [m \in MetricNames |->
        IF m \in empty THEN <<>> ELSE <<<<ScrapeTime(k), CalmScene[1]>>>>]

\* detectors as update_metrics (lines 134-137) and startup_event (lines
\* 88-91) build them: __init__, then load_history_data.  Both call sites
\* pass the metric name alone although __init__ also requires cluster_id;
\* the detectors are taken here as built, with no cluster id.
NewDetectors(h) == [m \in MetricNames |-> load(MadInit(m, None), h)]

\* what the Forecaster and the Segmenter do for one detector in one batch
StreamOutcomes(d) ==
    {[fc |-> f, cps |-> c] :
        f \in (IF TrainingDue(d)
               THEN {[kind |-> "ok", pred |-> CalmScene[2]], [kind |-> "train_raises"]}
               ELSE {[kind |-> "unused"]}),
        c \in SegmenterOutcomes(d)}
StreamEnvs(dict) ==
    {e \in [MetricNames -> UNION {StreamOutcomes(dict[m]) : m \in MetricNames}] :
        \A m \in MetricNames : e[m] \in StreamOutcomes(dict[m])}

\* the for loop of update_metrics, lines 142-147, from metrics_list[i] on.
\* A run() that raises ends the loop and the coroutine.
RECURSIVE IngestFrom(_, _, _, _, _, _)
\* the loop left at the first metric without a sample
IngestFrom_stop(i, dict, new_data, env, payloads, done) ==
    IF i > Len(metrics_list)
    THEN [dict |-> dict, payloads |-> payloads, done |-> done, failed |-> None]
    ELSE LET metric_name == metrics_list[i] IN
         IF Len(new_data[metric_name]) = 0
         THEN [dict |-> dict, payloads |-> payloads, done |-> done, failed |-> None]
         ELSE LET v == new_data[metric_name][1]
                  r == run(dict[metric_name], v[1], v[2], env[metric_name].fc,
                           env[metric_name].cps)
                  dict1 == [dict EXCEPT ![metric_name] = r.mad]
              IN IF r.raised
                 THEN [dict |-> dict1, payloads |-> payloads, done |-> done,
                       failed |-> Some(metric_name)]
                 ELSE IngestFrom(i + 1, dict1, new_data, env,
                                 IF r.ret.kind = "payload"
                                 THEN Append(payloads, r.ret) ELSE payloads,
                                 Append(done, metric_name))

IngestFrom(i, dict, new_data, env, payloads, done) ==
    IF i > Len(metrics_list)
    THEN [dict |-> dict, payloads |-> payloads, done |-> done, failed |-> None]
    ELSE LET metric_name == metrics_list[i] IN
         IF Len(new_data[metric_name]) = 0
         THEN IngestFrom(i + 1, dict, new_data, env, payloads, done)
         ELSE LET v == new_data[metric_name][1]
                  r == run(dict[metric_name], v[1], v[2], env[metric_name].fc,
                           env[metric_name].cps)
                  dict1 == [dict EXCEPT ![metric_name] = r.mad]
              IN IF r.raised
                 THEN [dict |-> dict1, payloads |-> payloads, done |-> done,
                       failed |-> Some(metric_name)]
                 ELSE IngestFrom(i + 1, dict1, new_data, env,
                                 IF r.ret.kind = "payload"
                                 THEN Append(payloads, r.ret) ELSE payloads,
                                 Append(done, metric_name))

\* how a bulk request can go: every document indexed, a document refused,
\* the request timed out, the connection failed
BulkResults(payloads) ==
    IF payloads = <<>> THEN {"ok"}
    ELSE {"ok", "doc_not_ok", "timeout", "connection_error"}

\* async_streaming_bulk(es, doc_generator(...)), lines 151-153, is called
\* with its defaults: raise_on_error and raise_on_exception are True
RaiseOnError == TRUE

\* what async_streaming_bulk hands to its caller: it yields (ok, result)
\* per document or raises.  With raise_on_error a refused document is not
\* yielded but reported by BulkIndexError.
Surfaced(result) ==
    CASE result = "ok" -> "ok"
      [] result = "doc_not_ok" -> IF RaiseOnError THEN "BulkIndexError" ELSE "not_ok"
      [] result = "timeout" -> "ConnectionTimeout"
      [] OTHER -> "ConnectionError"

\* the except clause naming BulkIndexError alone
Caught_bulkonly(exception) == exception = "BulkIndexError"

\* the except clause of line 157
Caught(exception) == exception \in {"BulkIndexError", "ConnectionTimeout"}

\* lines 150-159: where update_metrics is after the bulk call.  For a
\* document yielded with ok false, line 156 formats its message without
\* arguments, which raises IndexError; no except clause names it.
AfterSend(surfaced) ==
    CASE surfaced = "ok" -> "get"
      [] surfaced = "not_ok" -> "raised"
      [] Caught(surfaced) -> "get"
      [] OTHER -> "raised"

\* for metric_name, query in PROMETHEUS_CUSTOM_QUERIES (line 96): iterating
\* a dict yields its keys, here the metric names
LoopItems_pairs == [i \in DOMAIN metrics_list |-> <<metrics_list[i], "query">>]
LoopItems == metrics_list

\* an item unpacks into metric_name, query iff it has two elements; a
\* string unpacks into its characters
Unpacks(item) == Len(item) = 2

\* the sample the handler queries and what the Forecaster does with it
HandlerOutcomes(d) ==
    {[xs |-> NextMinute(d) + 1, y |-> CalmScene[1], fc |-> o.fc, cps |-> o.cps] :
        o \in StreamOutcomes(d)}
HandlerEnvs(dict) ==
    {e \in [MetricNames -> UNION {HandlerOutcomes(dict[m]) : m \in MetricNames}] :
        \A m \in MetricNames : e[m] \in HandlerOutcomes(dict[m])}

\* the for loop of get_metrics, lines 96-100, from the i-th item on: the
\* detectors after it and the status of the response.  An item that does
\* not unpack (ValueError), a name that is no key of MAD_DICT (KeyError),
\* a run() that raises or returns None (TypeError at line 100) end it.
RECURSIVE ServeFrom(_, _, _)
ServeFrom(i, dict, env) ==
    IF i > Len(LoopItems) THEN [dict |-> dict, status |-> "200"]
    ELSE LET item == LoopItems[i] IN
         IF ~Unpacks(item) THEN [dict |-> dict, status |-> "500"]
         ELSE LET metric_name == item[1] IN
              IF metric_name \notin DOMAIN dict THEN [dict |-> dict, status |-> "500"]
              ELSE LET e == env[metric_name]
                       r == run(dict[metric_name], e.xs, e.y, e.fc, e.cps)
                       dict1 == [dict EXCEPT ![metric_name] = r.mad]
                   IN IF r.raised \/ r.ret.kind = "None"
                      THEN [dict |-> dict1, status |-> "500"]
                      ELSE ServeFrom(i + 1, dict1, env)

\* the detector specification's variables are not part of this one
DetIdle ==
    /\ mad = <<>>
    /\ phase = "off"
    /\ last = [op |-> "init"]

\* __main__, lines 202-211: the queue and the three coroutines
SysInit ==
    /\ DetIdle
    /\ mad_dict = <<>>
    /\ MAD_DICT = <<>>
    /\ inference_queue = <<>>
    /\ producer_pc = "scrape"
    /\ consumer_pc = "init"
    /\ server_pc = "startup"
    /\ scrapes = 0
    /\ metrics_payloads = <<>>
    /\ ingested = [present |-> {}, done |-> <<>>, failed |-> None]
    /\ sink = "none"
    /\ bulk_calls = 0
    /\ http = "none"
    /\ actor = "none"

\* scrape_prometheus_metrics: one pass of its loop, lines 177-196.  The
\* three queries are blocking calls; a query that fails raises.
ScrapePrometheusMetrics ==
    /\ Running
    /\ producer_pc = "scrape"
    /\ scrapes < MaxScrapes
    /\ \/ /\ ~QueueFull(inference_queue)
          /\ \E empty \in EmptyResults :
                inference_queue' = Append(inference_queue, ScrapedPayload(scrapes, empty))
          /\ scrapes' = scrapes + 1
          /\ UNCHANGED producer_pc
       \/ /\ producer_pc' = "raised"
          /\ UNCHANGED <<inference_queue, scrapes>>
    /\ actor' = "producer"
    /\ UNCHANGED <<mad, phase, last, mad_dict, MAD_DICT, consumer_pc, server_pc,
                   metrics_payloads, ingested, sink, bulk_calls, http>>

\* update_metrics, lines 133-137: one detector per metric, seeded from the
\* store (a failed search is caught and seeds nothing)
UpdateMetricsInit ==
    /\ Running
    /\ consumer_pc = "init"
    /\ \E h \in Histories : mad_dict' = NewDetectors(h)
    /\ consumer_pc' = "get"
    /\ actor' = "consumer"
    /\ UNCHANGED <<mad, phase, last, MAD_DICT, inference_queue, producer_pc, server_pc,
                   scrapes, metrics_payloads, ingested, sink, bulk_calls, http>>

\* update_metrics, lines 139-147: dequeue one batch and run the detectors
UpdateMetricsIngest ==
    /\ Running
    /\ consumer_pc = "get"
    /\ inference_queue # <<>>
    /\ LET new_data == Head(inference_queue) IN
       \E env \in StreamEnvs(mad_dict) :
          LET r == IngestFrom(1, mad_dict, new_data, env, <<>>, <<>>) IN
          /\ mad_dict' = r.dict
          /\ metrics_payloads' = r.payloads
          /\ ingested' = [present |-> {m \in MetricNames : new_data[m] # <<>>},
                          done |-> r.done, failed |-> r.failed]
          /\ consumer_pc' = IF r.failed = None THEN "send" ELSE "raised"
    /\ inference_queue' = Tail(inference_queue)
    /\ actor' = "consumer"
    /\ UNCHANGED <<mad, phase, last, MAD_DICT, producer_pc, server_pc, scrapes, sink,
                   bulk_calls, http>>

\* update_metrics, lines 149-159: one bulk call for the batch's Evaluations
UpdateMetricsSend ==
    /\ Running
    /\ consumer_pc = "send"
    /\ \E result \in BulkResults(metrics_payloads) :
          /\ sink' = Surfaced(result)
          /\ consumer_pc' = AfterSend(Surfaced(result))
    /\ bulk_calls' = bulk_calls + 1
    /\ actor' = "consumer"
    /\ UNCHANGED <<mad, phase, last, mad_dict, MAD_DICT, inference_queue, producer_pc,
                   server_pc, scrapes, metrics_payloads, ingested, http>>

\* startup_event, lines 86-91
StartupEvent ==
    /\ Running
    /\ server_pc = "startup"
    /\ \E h \in Histories : MAD_DICT' = NewDetectors(h)
    /\ server_pc' = "serving"
    /\ actor' = "startup"
    /\ UNCHANGED <<mad, phase, last, mad_dict, inference_queue, producer_pc, consumer_pc,
                   scrapes, metrics_payloads, ingested, sink, bulk_calls, http>>

\* get_metrics, lines 93-101: one request
GetMetrics ==
    /\ Running
    /\ server_pc = "serving"
    /\ \E env \in HandlerEnvs(MAD_DICT) :
          LET r == ServeFrom(1, MAD_DICT, env) IN
          /\ MAD_DICT' = r.dict
          /\ http' = r.status
    /\ actor' = "handler"
    /\ UNCHANGED <<mad, phase, last, mad_dict, inference_queue, producer_pc, consumer_pc,
                   server_pc, scrapes, metrics_payloads, ingested, sink, bulk_calls>>

SysNext ==
    \/ ScrapePrometheusMetrics
    \/ UpdateMetricsInit
    \/ UpdateMetricsIngest
    \/ UpdateMetricsSend
    \/ StartupEvent
    \/ GetMetrics

SysSpec == SysInit /\ [][SysNext]_vars

----------------------------------------------------------------------------
(* Properties of the detector *)

\* number of 1 flags at the end of h
RECURSIVE TrailingOnes(_)
TrailingOnes(h) ==
    IF h = <<>> \/ Last(h) # 1 THEN 0 ELSE 1 + TrailingOnes(DropLast(h))

\* the last k ticks of d are a run of anomalous ticks that began at score 0:
\* the alert start is the timestamp of the first tick of the run
RunFromZero(d, k) ==
    /\ k >= 1
    /\ k = TrailingOnes(d.anomaly_history)
    /\ d.anomaly_start_time = Some(d.metric_xs[Len(d.metric_xs) - k + 1])

\* the last call was a run() that returned an Evaluation
Evaluated == last.op = "run" /\ last.ret.kind = "payload"

\* the detector was filled by run() alone, not by load()
FromScratch(d) == d.pred_history = <<>> \/ d.pred_history[1] = <<None, None, None>>

\* C1: a run() whose normalized timestamp is already stored returns None,
\* does not train the Forecaster and changes nothing in the detector.
C1_DuplicateRejected ==
    [][(last'.op = "run" /\
        \E i \in DOMAIN mad.metric_xs :
           mad.metric_xs[i] = (last'.xs_raw \div LOOP_TIME_SECOND) * LOOP_TIME_SECOND)
       => (last'.ret.kind = "None" /\ ~last'.raised /\ ~last'.trained /\ mad' = mad)]_vars

\* a duplicate, given mid-minute, was rejected by a detector that trains on
\* every accepted point
C1_Witness ==
    /\ last.op = "run"
    /\ last.ret.kind = "None"
    /\ last.xs_raw % LOOP_TIME_SECOND # 0
    /\ Len(mad.metric_xs) > MIN_TRAINING_SIZE

\* C2 as claimed: after k consecutive anomalous ticks from score 0 the score
\* is min(k, ALERT_SCORE_THRESHOLD).
C2_ScoreCapped ==
    \A k \in 1..MaxTicks :
       RunFromZero(mad, k) => mad.alert_score_counter = Min2(k, ALERT_SCORE_THRESHOLD)

\* C2 amended: after k consecutive anomalous ticks from score 0 the score is
\* k, also beyond the threshold.
C2_ScoreCounts ==
    \A k \in 1..MaxTicks : RunFromZero(mad, k) => mad.alert_score_counter = k

\* a run longer than the threshold
C2_Witness ==
    \E k \in (ALERT_SCORE_THRESHOLD + 1)..MaxTicks : RunFromZero(mad, k)

\* C3: the score is a natural number, the alert start is set exactly when
\* the score is positive; a normal tick at a positive score lowers it by 2,
\* not below 0; the alert start is cleared exactly on a step that takes the
\* score from positive to 0.
C3_Invariant ==
    /\ mad.alert_score_counter \in Nat
    /\ (mad.anomaly_start_time # None) <=> (mad.alert_score_counter > 0)

C3_Step ==
    /\ (/\ last'.op = "run"
        /\ last'.ret.kind = "payload"
        /\ Len(mad.metric_xs) >= MIN_TRAINING_SIZE
        /\ last'.ret.is_anomaly = 0
        /\ mad.alert_score_counter > 0)
       => mad'.alert_score_counter = Max2(mad.alert_score_counter - 2, 0)
    /\ (mad.anomaly_start_time # None /\ mad'.anomaly_start_time = None)
       <=> (mad.alert_score_counter > 0 /\ mad'.alert_score_counter = 0)

C3_ScoreAndStart == [](C3_Invariant) /\ [][C3_Step]_vars

\* three anomalous ticks, then two normal ones: 3, 1, 0 and the start cleared
C3_Witness ==
    /\ Evaluated
    /\ Len(mad.anomaly_history) = MIN_TRAINING_SIZE + 5
    /\ SubSeq(mad.anomaly_history, MIN_TRAINING_SIZE + 1, MIN_TRAINING_SIZE + 5)
         = <<1, 1, 1, 0, 0>>
    /\ mad.alert_score_counter = 0
    /\ mad.anomaly_start_time = None

\* C4: an Evaluation reports the score after its tick, and is_alert exactly
\* when that score has reached the threshold; a run of k <= threshold
\* anomalous ticks from score 0 reports score k, and is_alert only at k = 5.
C4_AlertAtThreshold ==
    Evaluated =>
       /\ last.ret.alert_score = mad.alert_score_counter
       /\ (last.ret.is_alert = 1) <=> (last.ret.alert_score >= ALERT_SCORE_THRESHOLD)
       /\ last.ret.is_alert \in {0, 1}
       /\ \A k \in 1..ALERT_SCORE_THRESHOLD :
             RunFromZero(mad, k) =>
                /\ last.ret.alert_score = k
                /\ (last.ret.is_alert = 1) <=> (k = ALERT_SCORE_THRESHOLD)

\* 30 bootstrap points, then the fifth of five anomalous points
C4_Witness ==
    /\ Evaluated
    /\ FromScratch(mad)
    /\ Len(mad.metric_xs) = MIN_TRAINING_SIZE + ALERT_SCORE_THRESHOLD
    /\ RunFromZero(mad, ALERT_SCORE_THRESHOLD)
    /\ last.ret.is_alert = 1

\* the Evaluation of the last call was judged against a prediction
Judged == last.trained /\ last.ret.confidence_score = 1

\* the Evaluation of the last call echoes the measurement
Echoed ==
    /\ last.ret.is_anomaly = 0
    /\ last.ret.yhat = last.ret.y
    /\ ~last.trained

\* C5 as claimed: without replayed history the (MIN_TRAINING_SIZE - 1)-th
\* point is echoed and the points judged against a prediction are the
\* MIN_TRAINING_SIZE-th and later ones.
C5_JudgedFromMin ==
    (Evaluated /\ FromScratch(mad)) =>
       /\ Len(mad.metric_xs) = MIN_TRAINING_SIZE - 1 => Echoed
       /\ Judged <=> Len(mad.metric_xs) >= MIN_TRAINING_SIZE

\* C5 amended: every point up to the MIN_TRAINING_SIZE-th is echoed, and
\* the points judged against a prediction are the (MIN_TRAINING_SIZE + 1)-th
\* and later ones.
C5_JudgedAfterMin ==
    (Evaluated /\ FromScratch(mad)) =>
       /\ Len(mad.metric_xs) <= 30 => Echoed
       /\ Judged <=> Len(mad.metric_xs) >= 30 + 1

\* the first judged point of a detector without replayed history
C5_Witness ==
    /\ Evaluated
    /\ FromScratch(mad)
    /\ Len(mad.metric_xs) = 30 + 1
    /\ Judged

\* C6 as claimed: when the Forecaster raises, run() still returns an
\* Evaluation that echoes the measurement, and the point is stored.
C6_FitFailureEchoes ==
    (last.op = "run" /\ last.fc \in {"train_raises", "predict_raises"}) =>
       /\ last.ret.kind = "payload"
       /\ last.ret.is_anomaly = 0
       /\ last.ret.yhat = last.ret.y
       /\ last.ret.yhat_lower = last.ret.y
       /\ last.ret.yhat_upper = last.ret.y
       /\ mad.metric_xs # <<>>
       /\ Last(mad.metric_xs) = last.ret.timestamp

----------------------------------------------------------------------------
(* Properties of the streaming loop *)

BulkFailures == {"BulkIndexError", "ConnectionTimeout", "not_ok"}

\* C7: a detector whose run raises while a batch is ingested does not stop
\* the consumer, and every other metric that has a sample in the batch is
\* still ingested.
C7_FailureIsolated ==
    ingested.failed # None =>
        /\ consumer_pc # "raised"
        /\ \A m \in ingested.present \ Range(ingested.failed) : m \in Range(ingested.done)

\* the step in which update_metrics leaves its bulk call
SendStep == consumer_pc = "send" /\ consumer_pc' # "send"

\* C8: when the bulk call fails (bulk-index error, connection timeout,
\* document reported not ok), no detector changes, the batch's Evaluations
\* are not sent again (the call is made once and the consumer returns to
\* the queue, from which nothing was taken), and the process runs on with
\* the consumer back at inference_queue.get(), which hands it the next
\* queued batch.
C8_Step ==
    (SendStep /\ sink' \in BulkFailures) =>
        /\ UNCHANGED <<mad_dict, MAD_DICT, inference_queue>>
        /\ bulk_calls' = bulk_calls + 1
        /\ consumer_pc' = "get"
        /\ Running'
C9_QueueBounded == Len(inference_queue) < MaxScrapes

\* C10: a step of the producer or of the /metrics handler changes no
\* detector, neither the consumer's nor the server's, wherever the other
\* tasks are.
C10_OnlyConsumerMutates ==
    [][actor' \in {"producer", "handler"} => UNCHANGED <<mad_dict, MAD_DICT>>]_vars
\* a request served between the consumer's ingests
C10_Witness ==
    /\ actor = "handler"
    /\ http # "none"
    /\ scrapes > 0
    /\ ingested.done # <<>>
    /\ consumer_pc = "send"

----------------------------------------------------------------------------
(* Properties of the training window *)

\* the series the Forecaster was trained on last is no longer than the cap
ForecasterWindowCapped ==
    mad.metric_model # None => Len(mad.metric_model[1]) <= ROLLING_TRAINING_SIZE

\* the series handed to the Segmenter by the last call is no longer than the cap
SegmenterWindowCapped ==
    (last.op = "run" /\ last.training_y # None) =>
        last.training_y[1] <= ROLLING_TRAINING_SIZE

\* C11: with timestamps that increase, contiguous or with gaps, the window
\* handed to the Forecaster and the one handed to the Segmenter never hold
\* more than ROLLING_TRAINING_SIZE elements.
C11_WindowCapped == ForecasterWindowCapped /\ SegmenterWindowCapped

\* C12: no step lowers start_index, whether train_and_predict applies the
\* rolling cap or change_point_detection accepts a breakpoint of the
\* Segmenter, whatever breakpoints it returns.
C12_StartIndexMonotone == [][mad'.start_index >= mad.start_index]_vars
\* a run() in which the cap advanced start_index and an accepted breakpoint
\* advanced it further
C12_Witness ==
    /\ last.op = "run"
    /\ last.training_y = Some(ROLLING_TRAINING_SIZE + 1)
    /\ Len(mad.metric_y) > ROLLING_TRAINING_SIZE + 1
    /\ last.start_index = 0
    /\ mad.start_index > last.start_index + 1

----------------------------------------------------------------------------
(* Properties of the judgement *)

\* C13: a disk_usage point judged in the Active state is anomalous exactly
\* when the measurement is at or above the ceiling of 80, whatever band the
\* Forecaster predicted; the flag stored is the one reported.
C13_DiskCeiling ==
    (Evaluated /\ Judged /\ mad.metric_name = "disk_usage") =>
        /\ (last.ret.is_anomaly = 1) <=> (last.ret.y >= DISK_UPPER_BOUND)
        /\ last.ret.is_anomaly \in {0, 1}
        /\ Last(mad.anomaly_history) = last.ret.is_anomaly
\* a measurement at the ceiling, inside the predicted band, judged anomalous
C13_Witness ==
    /\ Evaluated
    /\ Judged
    /\ mad.metric_name = "disk_usage"
    /\ last.ret.y = DISK_UPPER_BOUND
    /\ Last(mad.pred_history) = <<Some(80), Some(70), Some(90)>>
    /\ last.ret.is_anomaly = 1

\* C14: an Evaluation judged in the Active state reports yhat_lower and
\* yhat_upper inside [0, 100], whatever band was predicted and whatever was
\* measured.
C14_BoundsInRange ==
    (Evaluated /\ Judged) =>
        /\ 0 <= last.ret.yhat_lower /\ last.ret.yhat_lower <= 100
        /\ 0 <= last.ret.yhat_upper /\ last.ret.yhat_upper <= 100

----------------------------------------------------------------------------
(* Properties of the stored series *)

SameLength(d) ==
    /\ Len(d.metric_y) = Len(d.metric_xs)
    /\ Len(d.metric_rawy) = Len(d.metric_xs)
    /\ Len(d.pred_history) = Len(d.metric_xs)
    /\ Len(d.anomaly_history) = Len(d.metric_xs)

\* C15: timestamps, observed values, training values, predictions and
\* flags have one length in every state, and that length counts the
\* accepted points: load() adds the number of records, a run() that
\* returns an Evaluation adds one, a run() that returns None or raises
\* adds nothing.
C15_Step ==
    /\ last'.op = "load" =>
          Len(mad'.metric_xs) = Len(mad.metric_xs) + Len(last'.history)
    /\ (last'.op = "run" /\ last'.ret.kind = "payload") =>
          Len(mad'.metric_xs) = Len(mad.metric_xs) + 1
    /\ (last'.op = "run" /\ last'.ret.kind # "payload") =>
          Len(mad'.metric_xs) = Len(mad.metric_xs)
C15_ParallelLengths == [](SameLength(mad)) /\ [][C15_Step]_vars
\* a loaded detector accepted a judged point and then rejected a duplicate
C15_Witness ==
    /\ last.op = "run"
    /\ last.ret.kind = "None"
    /\ Len(mad.metric_xs) = MIN_TRAINING_SIZE + 1
    /\ Last(mad.pred_history)[1] # None
    /\ SameLength(mad)

\* C16: the stored timestamps are strictly increasing in every state,
\* whatever the order in which points arrive.
C16_TimestampsIncrease == Increasing(mad.metric_xs)

----------------------------------------------------------------------------
(* Seeding against replay *)

\* the records of h given to run() one by one, oldest first, the Forecaster
\* predicting for each tick the band the record holds; a run() that raises
\* ends the replay
RECURSIVE Replay(_, _)
Replay(d, h) ==
    IF h = <<>> THEN d
    ELSE LET rec == Head(h)
             fc == IF TrainingDue(d)
                   THEN [kind |-> "ok",
                         pred |-> <<rec.yhat[1], rec.yhat_lower[1], rec.yhat_upper[1]>>]
                   ELSE [kind |-> "unused"]
             stepped == run(d, rec.timestamp, rec.y, fc, <<>>)
         IN IF stepped.raised THEN stepped.mad ELSE Replay(stepped.mad, Tail(h))

SameAlertState(a, b) ==
    /\ a.alert_score_counter = b.alert_score_counter
    /\ a.anomaly_start_time = b.anomaly_start_time

SameBuffer(a, b) ==
    /\ a.metric_xs = b.metric_xs
    /\ a.metric_rawy = b.metric_rawy
    /\ a.metric_y = b.metric_y
    /\ a.pred_history = b.pred_history
    /\ a.anomaly_history = b.anomaly_history
    /\ a.start_index = b.start_index

\* the detector that run() alone would have built from the loaded history
Replayed == Replay(MadInit(mad.metric_name, mad.cluster_id), last.history)

\* C17: after load() the buffer and the alert state are those reached by
\* giving the same records to run() one by one, oldest first.
C17_SeedEqualsReplay ==
    last.op = "load" => (SameBuffer(mad, Replayed) /\ SameAlertState(mad, Replayed))

----------------------------------------------------------------------------
(* Bootstrap and Active *)

\* C18: a detector that takes the forecasting branch takes it on every
\* later call: after any run(), accepted, duplicate or raising, with or
\* without a change-point adjustment, it is still Active, and every later
\* Evaluation is judged against a prediction.
C18_Step ==
    Active(mad) =>
        /\ Active(mad')
        /\ (last'.op = "run" /\ last'.ret.kind = "payload") =>
              (last'.trained /\ last'.ret.confidence_score = 1)
C18_ActiveOneWay == [][C18_Step]_vars
\* a point judged after a change-point adjustment moved start_index
C18_Witness ==
    /\ Evaluated
    /\ Judged
    /\ last.n = 2
    /\ mad.start_index > 0
    /\ Len(mad.metric_xs) = 2 * CPD_TRACE_BACK_TIME + 1

----------------------------------------------------------------------------
(* Batches with a metric that has no sample *)

\* the step in which update_metrics dequeues a batch and runs the detectors
IngestStep == consumer_pc = "get" /\ consumer_pc' # "get"

\* C19: a metric for which the dequeued batch holds no sample is skipped:
\* its detector is unchanged and no Evaluation is collected for it; unless
\* a detector raises, every metric that has a sample is run and its
\* Evaluation collected.
C19_Step ==
    IngestStep =>
       LET new_data == Head(inference_queue) IN
       /\ \A m \in MetricNames :
             new_data[m] = <<>> =>
                /\ mad_dict'[m] = mad_dict[m]
                /\ m \notin Range(ingested'.done)
                /\ \A i \in DOMAIN metrics_payloads' : metrics_payloads'[i].metric_name # m
       /\ ingested'.failed = None =>
             \A m \in MetricNames :
                new_data[m] # <<>> =>
                   /\ m \in Range(ingested'.done)
                   /\ \E i \in DOMAIN metrics_payloads' :
                         /\ metrics_payloads'[i].metric_name = m
                         /\ metrics_payloads'[i].timestamp = NormalizeTime(new_data[m][1][1])
                         /\ Last(mad_dict'[m].metric_xs) = metrics_payloads'[i].timestamp
C19_EmptySkipped == [][C19_Step]_vars
\* a batch without a memory_usage sample: cpu_usage before it and
\* disk_usage after it were run
C19_Witness ==
    /\ consumer_pc = "send"
    /\ ingested.present = {"cpu_usage", "disk_usage"}
    /\ ingested.done = <<"cpu_usage", "disk_usage">>
    /\ Len(metrics_payloads) = 2

----------------------------------------------------------------------------
(* The stored training value *)

\* C20: the training value stored for an accepted point is the measurement,
\* except for cpu_usage on a tick that is anomalous and not an alert, where
\* it is the predicted bound that was violated: the lower one if the
\* measurement is below it, otherwise the upper one.  The observed value
\* stored is always the measurement.
C20_TrainingValue ==
    Evaluated =>
       LET y == last.ret.y
           band == Last(mad.pred_history)
       IN /\ Last(mad.metric_rawy) = y
          /\ Last(mad.metric_y) =
                IF mad.metric_name = "cpu_usage" /\ last.ret.is_anomaly = 1
                      /\ last.ret.is_alert = 0
                THEN (IF y < band[2][1] THEN band[2][1] ELSE band[3][1])
                ELSE y
\* a cpu_usage measurement below its band, before the alert: the lower
\* bound is stored for training, the measurement as observed
C20_Witness ==
    /\ Evaluated
    /\ mad.metric_name = "cpu_usage"
    /\ last.ret.is_anomaly = 1
    /\ last.ret.is_alert = 0
    /\ last.ret.y < Last(mad.pred_history)[2][1]
    /\ Last(mad.metric_y) = Last(mad.pred_history)[2][1]
    /\ Last(mad.metric_rawy) = last.ret.y

----------------------------------------------------------------------------
(* Change-point adjustment *)

\* the flag of the tick k ticks before the newest one, FALSE if there is no
\* such tick
FlaggedBack(d, k) ==
    /\ Len(d.anomaly_history) > k
    /\ d.anomaly_history[Len(d.anomaly_history) - k] = 1

\* C21 as claimed: change_point_detection is called at the end of a run()
\* exactly when the metric is cpu_usage, at least CPD_TRACE_BACK_TIME flags
\* are stored and the tick CPD_TRACE_BACK_TIME ticks before the current
\* one was flagged.
C21_TriggerThirtyBefore ==
    last.op = "run" =>
       (last.cpd <=>
          /\ last.ret.kind = "payload"
          /\ mad.metric_name = "cpu_usage"
          /\ Len(mad.anomaly_history) >= CPD_TRACE_BACK_TIME
          /\ FlaggedBack(mad, CPD_TRACE_BACK_TIME))

\* C21 amended: the flag read is the CPD_TRACE_BACK_TIME-th most recent
\* one, the current tick counted: that of the tick CPD_TRACE_BACK_TIME - 1
\* ticks before the current one.
C21_TriggerThirtiethFlag ==
    last.op = "run" =>
       (last.cpd <=>
          /\ last.ret.kind = "payload"
          /\ mad.metric_name = "cpu_usage"
          /\ Len(mad.anomaly_history) >= 30
          /\ FlaggedBack(mad, 30 - 1))
\* the 60th point of a cpu_usage detector whose 31st point was flagged and
\* whose 30th was not
C21_Witness ==
    /\ last.op = "run"
    /\ last.cpd
    /\ Len(mad.anomaly_history) = 2 * CPD_TRACE_BACK_TIME
    /\ mad.anomaly_history[CPD_TRACE_BACK_TIME + 1] = 1
    /\ mad.anomaly_history[CPD_TRACE_BACK_TIME] = 0

\* C22: a call of change_point_detection on a training window of length L
\* leaves start_index as it is if L < 2 * CPD_TRACE_BACK_TIME or if no
\* candidate of the Segmenter, its last index left out, lies within
\* CPD_TOLERANCE of L - CPD_TRACE_BACK_TIME; otherwise it advances
\* start_index, once, by the most recent such candidate.
C22_Step ==
    (last'.op = "run" /\ last'.cpd) =>
       LET base == RollingStart(mad)
           L == Len(mad'.metric_y) - base
           candidates == DropLast(last'.cps)
           near == {i \in DOMAIN candidates :
                      Abs(candidates[i] - (L - CPD_TRACE_BACK_TIME)) <= CPD_TOLERANCE}
       IN IF L < 2 * CPD_TRACE_BACK_TIME \/ near = {}
          THEN mad'.start_index = base
          ELSE mad'.start_index =
                  base + candidates[CHOOSE i \in near : \A j \in near : j <= i]
C22_AdvanceByNearest == [][C22_Step]_vars
\* two candidates within the tolerance: the more recent one was taken
C22_Witness ==
    /\ last.op = "run"
    /\ last.cpd
    /\ Len(last.cps) = 3
    /\ last.cps[1] > 0
    /\ mad.start_index = last.start_index + last.cps[2]

\* C23: in every Evaluation the reported band is ordered,
\* yhat_lower <= yhat_upper, for the two-sided metrics and for the one
\* whose upper bound is the ceiling DISK_UPPER_BOUND, whatever ordered band
\* the Forecaster predicted, predicted bounds of 0 included.
C23_BandOrdered ==
    Evaluated => last.ret.yhat_lower <= last.ret.yhat_upper

\* C24: whenever the Forecaster is trained, the trailing window it is given
\* holds at least MIN_TRAINING_SIZE values, also on the ticks that follow a
\* change-point adjustment of start_index.
C24_WindowAtLeastMin ==
    (last.op = "run" /\ last.trained /\ last.fc # "train_raises") =>
       Len(mad.metric_model[1]) >= MIN_TRAINING_SIZE

\* C25: an Evaluation carries no alert_id exactly when the score after its
\* tick is 0; the tick that raises the score from 0 sets alert_id to its
\* normalized timestamp, and every following Evaluation carries that same
\* alert_id for as long as the score stays positive.
C25_Invariant ==
    Evaluated =>
       /\ last.ret.alert_id = mad.anomaly_start_time
       /\ (last.ret.alert_id = None) <=> (last.ret.alert_score = 0)

C25_Step ==
    (last'.op = "run" /\ last'.ret.kind = "payload" /\ last'.ret.alert_score > 0) =>
       IF mad.alert_score_counter > 0
       THEN last'.ret.alert_id = mad.anomaly_start_time
       ELSE last'.ret.alert_id =
               Some((last'.xs_raw \div LOOP_TIME_SECOND) * LOOP_TIME_SECOND)

C25_AlertIdStable == [](C25_Invariant) /\ [][C25_Step]_vars

\* three anomalous ticks, a normal one and an anomalous one, the last a
\* second into its minute: the alert_id is still the minute of the first
C25_Witness ==
    /\ Evaluated
    /\ last.xs_raw % LOOP_TIME_SECOND # 0
    /\ Len(mad.anomaly_history) >= MIN_TRAINING_SIZE + 5
    /\ LET n == Len(mad.anomaly_history) IN
       /\ SubSeq(mad.anomaly_history, n - 5, n) = <<0, 1, 1, 1, 0, 1>>
       /\ last.ret.alert_score = 2
       /\ last.ret.alert_id = Some(mad.metric_xs[n - 4])

====
